---- MODULE Spec2Model ----
(***************************************************************************)
(* State-machine model of the exam-evaluation frontend: the three exam     *)
(* wizards (schema-driven creation, schema-driven edit, ad-hoc creation),  *)
(* the RTK Query cache of the exam API, the PDF submission page and the    *)
(* detail / edit pages' retrieve-by-id query.                              *)
(***************************************************************************)
EXTENDS Integers, Sequences, FiniteSets, TLC

(***************************************************************************)
(* Bounds of the model.                                                    *)
(***************************************************************************)
MaxQuestions == 2
MaxPending == 2
MaxInflight == 2
MaxClock == 1
MaxTimers == 2
MaxMutations == 2
MaxRequests == 2
MaxSessions == 2
MaxUploads == 3

(***************************************************************************)
(* JavaScript values.  A string is a sequence of one-character strings so  *)
(* that Number() can be computed character by character.                   *)
(***************************************************************************)
Digits == <<"0", "1", "2", "3", "4", "5", "6", "7", "8", "9">>

IsDigit(c) == \E i \in 1..10 : Digits[i] = c

DigitVal(c) == (CHOOSE i \in 1..10 : Digits[i] = c) - 1

NumV(n) == [t |-> "number", n |-> n, s |-> <<>>]

StrV(s) == [t |-> "string", n |-> 0, s |-> s]

NaN == [t |-> "NaN", n |-> 0, s |-> <<>>]

UndefinedV == [t |-> "undefined", n |-> 0, s |-> <<>>]

RECURSIVE DigitsToNat(_)
DigitsToNat(s) ==
    IF s = <<>> THEN 0
    ELSE 10 * DigitsToNat(SubSeq(s, 1, Len(s) - 1)) + DigitVal(s[Len(s)])

AllDigits(s) == \A i \in 1..Len(s) : IsDigit(s[i])

\* Number(string): "" -> 0, an optionally signed run of digits -> its value,
\* anything else -> NaN.
StringToNumber(s) ==
    IF s = <<>> THEN NumV(0)
    ELSE IF AllDigits(s) THEN NumV(DigitsToNat(s))
    ELSE IF s[1] = "-" /\ Len(s) > 1 /\ AllDigits(Tail(s))
         THEN NumV(0 - DigitsToNat(Tail(s)))
    ELSE NaN

\* Number(val) as used by the schemas' mark transform and by the pages'
\* Number(params.id).
Number(val) ==
    CASE val.t = "number" -> val
      [] val.t = "string" -> StringToNumber(val.s)
      [] OTHER -> NaN

\* !x for a value produced by Number(): NaN and 0 are falsy.
Falsy(val) == val.t = "NaN" \/ val.t = "undefined" \/ (val.t = "number" /\ val.n = 0)

(***************************************************************************)
(* Data model (lib/types.ts).                                              *)
(***************************************************************************)
NoId == 0

Undefined == "<undefined>"

\* Text a user can leave in a text field: empty or not.
Str == {"", "a"}

\* What a user can type into the number input of a mark.
TypedMarks == {StrV(<<"a", "b", "c">>), StrV(<<"0">>), StrV(<<"7">>)}

\* Mutant: the appended entry carries the id of a persisted question.
DefaultQuestionWithId ==
    [id |-> 22, text |-> "", ideal_answer |-> "", instructions |-> "",
     mark |-> [t |-> "number", n |-> 10, s |-> <<>>],
     created_at |-> "<undefined>", updated_at |-> "<undefined>"]

\* The entry appended by the "Add Question" button and held by a fresh
\* creation form.
DefaultQuestion ==
    [id |-> NoId, text |-> "", ideal_answer |-> "", instructions |-> "",
     mark |-> NumV(10), created_at |-> Undefined, updated_at |-> Undefined]

PersistedQuestion(id, instr, mark) ==
    [id |-> id, text |-> "a", ideal_answer |-> "a", instructions |-> instr,
     mark |-> NumV(mark), created_at |-> "t0", updated_at |-> "t1"]

\* Exams as returned by retrieve-by-id.
Exams ==
    { [id |-> 1, title |-> "a", subject |-> "a", instructions |-> "a",
       questions |-> <<PersistedQuestion(11, "a", 10)>>,
       created_at |-> "t0", updated_at |-> "t1"],
      [id |-> 2, title |-> "a", subject |-> "a", instructions |-> "a",
       questions |-> <<PersistedQuestion(21, Undefined, 7),
                       PersistedQuestion(22, "a", 10)>>,
       created_at |-> "t0", updated_at |-> "t1"] }

NoExam ==
    [id |-> NoId, title |-> "", subject |-> "", instructions |-> "",
     questions |-> <<>>, created_at |-> Undefined, updated_at |-> Undefined]

VARIABLES
    kind,           \* which wizard component is mounted: "create", "edit", "adhoc"
    exam,           \* the exam prop of ExamEditForm (NoExam otherwise)
    view,           \* "wizard" while mounted, "left" after Cancel/Back to Home, "done" after the completion callback
    step,           \* useState(1)
    form,           \* react-hook-form values of the schema-driven wizards
    queue,          \* validations started by handleNext / handleSubmit and not yet resolved
    inflight,       \* number of create / update requests sent and not yet answered
    latestPending,  \* the mutation hook's isLoading: its latest request is unanswered
    succeeded,      \* number of requests answered with success
    completed,      \* number of calls of onComplete / onUpdateComplete
    pristine,       \* no field was edited, appended or removed since the form was built
    adhoc,          \* useState values of the ad-hoc creation component
    now,            \* Date.now()
    selectedFile,   \* SubmissionPage: useState<File | null>(null)
    isDragActive,   \* SubmissionPage: useState(false)
    message,        \* SubmissionPage: useState<{type, text} | null>(null)
    timers,         \* SubmissionPage: pending setTimeout callbacks, each with the file its closure holds
    lastEvent,      \* SubmissionPage: the DOM event handled last, with the file it carried
    route,          \* the page the router shows: [name, id], id being params.id
    backend,        \* the exams the server holds
    nextId,         \* the id the server gives to the next created exam
    queries,        \* RTK Query cache: an entry per cache key
    network,        \* requests sent and not yet handled by the client
    pendingTagInvalidations,  \* tags whose invalidation waits for pending requests
    started,        \* number of mutations started
    acknowledged,   \* the mutations answered with success: [endpoint, arg]
    paginated,      \* the server's ExamListView has a pagination_class
    sessions,       \* Index: number of times the creation wizard was mounted
    search,         \* Index: the query string the landing page was loaded with
    uploadProgress, \* ExamDashboard: useState(0)
    processing,     \* ExamDashboard: useState(false)
    intervals,      \* ExamDashboard: number of setInterval timers not yet cleared
    toasts,         \* ExamDashboard: number of "Upload complete" notifications
    uploads         \* ExamDashboard: number of handleFileUpload calls

wizardVars ==
    <<kind, exam, view, step, form, queue, inflight, latestPending,
      succeeded, completed, pristine, adhoc, now>>

submissionVars == <<selectedFile, isDragActive, message, timers, lastEvent>>

\* What a wizard's handlers never touch.
apiVars ==
    <<route, backend, nextId, queries, network, pendingTagInvalidations,
      started, acknowledged, paginated>>

dashboardVars == <<uploadProgress, processing, intervals, toasts, uploads>>

indexVars == <<sessions, search, dashboardVars>>

\* What a wizard's handlers never touch.
outsideWizard == <<submissionVars, apiVars, indexVars>>

vars == <<wizardVars, submissionVars, apiVars, indexVars>>


(***************************************************************************)
(* Schema validator: the two examFormSchema objects.  An error is the path *)
(* <<field, index>> of the field it is attached to (index 0: top level).   *)
(***************************************************************************)
\* mark: z.any().refine(val => { const num = Number(val); return !isNaN(num) && num >= 1 })
MarkRefine(val) ==
    LET num == Number(val) IN num.t = "number" /\ num.n >= 1

DetailNames == {"title", "subject", "instructions"}

DetailErrors(f) ==
    {<<name, 0>> : name \in {n \in DetailNames : f[n] = ""}}

QuestionTextErrors(f) ==
    {<<"text", i>> : i \in {j \in 1..Len(f.questions) : f.questions[j].text = ""}}
    \cup
    {<<"ideal_answer", i>> :
        i \in {j \in 1..Len(f.questions) : f.questions[j].ideal_answer = ""}}

\* Mutant: the array schema lacks .min(1).
ArrayMinNotEnforced(f) == {}

ArrayMinErrors(f) == IF Len(f.questions) >= 1 THEN {} ELSE {<<"questions", 0>>}

CreationSchemaErrors(f) ==
    DetailErrors(f) \cup QuestionTextErrors(f) \cup ArrayMinErrors(f)
    \cup {<<"mark", i>> :
            i \in {j \in 1..Len(f.questions) : ~MarkRefine(f.questions[j].mark)}}

\* The edit schema: an optional numeric id, and a mark that is transformed
\* but not refined.
EditSchemaErrors(f) ==
    DetailErrors(f) \cup QuestionTextErrors(f) \cup ArrayMinErrors(f)

SchemaErrors(k, f) ==
    IF k = "create" THEN CreationSchemaErrors(f) ELSE EditSchemaErrors(f)

\* The parsed value: unknown keys are stripped, mark is transformed.
CreationSchemaOutput(f) ==
    [title |-> f.title, subject |-> f.subject, instructions |-> f.instructions,
     questions |->
        [i \in 1..Len(f.questions) |->
            [text |-> f.questions[i].text,
             ideal_answer |-> f.questions[i].ideal_answer,
             instructions |-> f.questions[i].instructions,
             mark |-> Number(f.questions[i].mark)]]]

\* Mutant: the edit schema lacks the id key, which is then stripped.
EditSchemaOutputWithoutId(f) == CreationSchemaOutput(f)

EditSchemaOutput(f) ==
    [title |-> f.title, subject |-> f.subject, instructions |-> f.instructions,
     questions |->
        [i \in 1..Len(f.questions) |->
            [id |-> f.questions[i].id,
             text |-> f.questions[i].text,
             ideal_answer |-> f.questions[i].ideal_answer,
             instructions |-> f.questions[i].instructions,
             mark |-> Number(f.questions[i].mark)]]]

SchemaOutput(k, f) ==
    IF k = "create" THEN CreationSchemaOutput(f) ELSE EditSchemaOutput(f)

\* Mutant: step 1 validates the whole form, as step 2 does.
TriggerWholeForm(s, k, f) == SchemaErrors(k, f) = {}

\* Mutant: "subject" is missing from the names validated at step 1.
TriggerWithoutSubject(s, k, f) ==
    IF s = 1
    THEN \A name \in {"title", "instructions"} : <<name, 0>> \notin SchemaErrors(k, f)
    ELSE SchemaErrors(k, f) = {}

\* trigger(step === 1 ? ["title", "subject", "instructions"] : undefined):
\* the resolver validates the whole form, the result looks at the named
\* fields only (all fields when no name is given).
Trigger(s, k, f) ==
    IF s = 1
    THEN \A name \in DetailNames : <<name, 0>> \notin SchemaErrors(k, f)
    ELSE SchemaErrors(k, f) = {}

\* Mutant: the form is submitted without a resolver.
HandleSubmitSkipsValidation(k, f) == TRUE

\* handleSubmit(onSubmit): onSubmit runs only when the resolver reports no
\* error for the whole form.
HandleSubmitValid(k, f) == SchemaErrors(k, f) = {}

NoPayload ==
    [title |-> "", subject |-> "", instructions |-> "", questions |-> <<>>]

(***************************************************************************)
(* Initial states: one freshly mounted wizard.                             *)
(***************************************************************************)
\* Mutant: the form opens with values entered before.
CreationValuesKept ==
    [title |-> "a", subject |-> "a", instructions |-> "a",
     questions |-> <<[DefaultQuestion EXCEPT !.text = "a", !.ideal_answer = "a"]>>]

CreationDefaultValues ==
    [title |-> "", subject |-> "", instructions |-> "",
     questions |-> <<DefaultQuestion>>]

EditDefaultValues(e) ==
    [title |-> e.title, subject |-> e.subject, instructions |-> e.instructions,
     questions |-> e.questions]

NoForm ==
    [title |-> "", subject |-> "", instructions |-> "", questions |-> <<>>]

AdhocInitial ==
    [examTitle |-> "", examSubject |-> "", examInstructions |-> "",
     questions |-> <<>>,
     newQuestion |-> [text |-> "", points |-> 10, answer |-> ""]]

WizardCommonInit ==
    /\ view = "wizard"
    /\ step = 1
    /\ queue = <<>>
    /\ inflight = 0
    /\ latestPending = FALSE
    /\ succeeded = 0
    /\ completed = 0
    /\ pristine = TRUE
    /\ adhoc = AdhocInitial
    /\ now = 0

ExamCreationInit ==
    /\ kind = "create"
    /\ exam = NoExam
    /\ form = CreationDefaultValues
    /\ WizardCommonInit

ExamEditFormInit ==
    /\ kind = "edit"
    /\ exam \in Exams
    /\ form = EditDefaultValues(exam)
    /\ WizardCommonInit

AdhocCreationInit ==
    /\ kind = "adhoc"
    /\ exam = NoExam
    /\ form = NoForm
    /\ WizardCommonInit

WizardInit == ExamCreationInit \/ ExamEditFormInit \/ AdhocCreationInit


(***************************************************************************)
(* Schema-driven wizards: ExamCreation and ExamEditForm share the step     *)
(* components and differ in schema, default values and mutation.           *)
(***************************************************************************)
SchemaDriven == kind \in {"create", "edit"}

Mounted == view = "wizard"

\* isLoading of useCreateExamMutation / useUpdateExamMutation.
isLoading == latestPending

\* handleNext and handleSubmit await a validation.  Further activations of
\* the Next and submit controls may overtake an unresolved validation; every
\* other event of the form is handled once the validations have settled.
Settled == queue = <<>>

\* Mutant: remove(index) drops the last entry instead.
RemoveLast(seq, i) == SubSeq(seq, 1, Len(seq) - 1)

RemoveAt(seq, i) == SubSeq(seq, 1, i - 1) \o SubSeq(seq, i + 1, Len(seq))

RequestVars == <<inflight, latestPending, succeeded, completed>>

\* Leaving the wizard unmounts the component: its step and its values are
\* discarded (closures of unresolved handlers keep what they captured).
Unmount ==
    /\ step' = 1
    /\ form' = NoForm
    /\ adhoc' = AdhocInitial

\* <Input {...register("title")} /> and its siblings, rendered at step 1.
ExamDetailsStepInput(name, v) ==
    /\ SchemaDriven /\ Mounted /\ Settled /\ step = 1
    /\ form[name] # v
    /\ form' = [form EXCEPT ![name] = v]
    /\ pristine' = FALSE
    /\ UNCHANGED <<outsideWizard, kind, exam, view, step, queue, RequestVars, adhoc, now>>

\* <Textarea {...register(`questions.${index}.text`)} /> and ideal_answer.
QuestionsStepTextInput(index, name, v) ==
    /\ SchemaDriven /\ Mounted /\ Settled /\ step = 2
    /\ index \in 1..Len(form.questions)
    /\ form.questions[index][name] # v
    /\ form' = [form EXCEPT !.questions[index][name] = v]
    /\ pristine' = FALSE
    /\ UNCHANGED <<outsideWizard, kind, exam, view, step, queue, RequestVars, adhoc, now>>

\* <Input type="number" {...register(`questions.${index}.mark`)} />: the
\* value read back from the input is a string.
QuestionsStepMarkInput(index, v) ==
    /\ SchemaDriven /\ Mounted /\ Settled /\ step = 2
    /\ index \in 1..Len(form.questions)
    /\ form.questions[index].mark # v
    /\ form' = [form EXCEPT !.questions[index].mark = v]
    /\ pristine' = FALSE
    /\ UNCHANGED <<outsideWizard, kind, exam, view, step, queue, RequestVars, adhoc, now>>

\* append({ text: "", ideal_answer: "", instructions: "", mark: 10 })
append ==
    /\ SchemaDriven /\ Mounted /\ Settled /\ step = 2
    /\ Len(form.questions) < MaxQuestions
    /\ form' = [form EXCEPT !.questions = Append(@, DefaultQuestion)]
    /\ pristine' = FALSE
    /\ UNCHANGED <<outsideWizard, kind, exam, view, step, queue, RequestVars, adhoc, now>>

\* Mutant: the list refuses to drop its last entry.
removeKeepingOne(index) ==
    /\ SchemaDriven /\ Mounted /\ Settled /\ step = 2
    /\ index \in 1..Len(form.questions) /\ Len(form.questions) > 1
    /\ form' = [form EXCEPT !.questions = RemoveAt(@, index)]
    /\ pristine' = FALSE
    /\ UNCHANGED <<outsideWizard, kind, exam, view, step, queue, RequestVars, adhoc, now>>

\* remove(index)
remove(index) ==
    /\ SchemaDriven /\ Mounted /\ Settled /\ step = 2
    /\ index \in 1..Len(form.questions)
    /\ form' = [form EXCEPT !.questions = RemoveAt(@, index)]
    /\ pristine' = FALSE
    /\ UNCHANGED <<outsideWizard, kind, exam, view, step, queue, RequestVars, adhoc, now>>

\* handleNext up to its await: the Next button is rendered while step < 3;
\* the validation reads the step of the render and the current values.
handleNext ==
    /\ SchemaDriven /\ Mounted /\ step < 3
    /\ Len(queue) < MaxPending
    /\ queue' = Append(queue, [op |-> "next", ok |-> Trigger(step, kind, form),
                               data |-> NoPayload])
    /\ UNCHANGED <<outsideWizard, kind, exam, view, step, form, RequestVars, pristine, adhoc, now>>

\* handleBack = () => setStep(s => s - 1); rendered while step > 1.
handleBack ==
    /\ SchemaDriven /\ Mounted /\ Settled /\ step > 1
    /\ step' = step - 1
    /\ UNCHANGED <<outsideWizard, kind, exam, view, form, queue, RequestVars, pristine, adhoc, now>>

\* The form's submit event up to the end of handleSubmit's validation.
StartSubmit ==
    /\ Len(queue) < MaxPending
    /\ queue' = Append(queue,
                       [op |-> "submit", ok |-> HandleSubmitValid(kind, form),
                        data |-> IF HandleSubmitValid(kind, form)
                                 THEN SchemaOutput(kind, form) ELSE NoPayload])
    /\ UNCHANGED <<outsideWizard, kind, exam, view, step, form, RequestVars, pristine, adhoc, now>>

\* <Button type="submit" disabled={isLoading}>, rendered once step is not < 3.
SubmitButton ==
    /\ SchemaDriven /\ Mounted /\ step >= 3
    /\ ~isLoading
    /\ StartSubmit

\* Enter in the only mark input of step 2: a form without a submit button and
\* with a single text-like input is submitted implicitly.
ImplicitSubmit ==
    /\ SchemaDriven /\ Mounted /\ step = 2
    /\ Len(form.questions) = 1
    /\ StartSubmit

\* The continuation of handleNext: if (isValid) setStep(s => s + 1).  A state
\* update of an unmounted component is dropped.
ResolveNext ==
    /\ queue # <<>> /\ Head(queue).op = "next"
    /\ queue' = Tail(queue)
    /\ step' = IF Head(queue).ok /\ Mounted THEN step + 1 ELSE step
    /\ UNCHANGED <<outsideWizard, kind, exam, view, form, RequestVars, pristine, adhoc, now>>

\* The continuation of handleSubmit: onSubmit(data) sends the request.
ResolveSubmitValid ==
    /\ queue # <<>> /\ Head(queue).op = "submit" /\ Head(queue).ok
    /\ inflight < MaxInflight
    /\ queue' = Tail(queue)
    /\ inflight' = inflight + 1
    /\ latestPending' = TRUE
    /\ UNCHANGED <<outsideWizard, kind, exam, view, step, form, succeeded, completed, pristine,
                   adhoc, now>>

\* The continuation of handleSubmit with errors: onSubmit is not called.
ResolveSubmitInvalid ==
    /\ queue # <<>> /\ Head(queue).op = "submit" /\ ~Head(queue).ok
    /\ queue' = Tail(queue)
    /\ UNCHANGED <<outsideWizard, kind, exam, view, step, form, RequestVars, pristine, adhoc, now>>

\* Requests are answered in any order: the hook's latest request, or an
\* earlier one that is still unanswered.
Answerable(latest) ==
    IF latest THEN latestPending
    ELSE inflight > (IF latestPending THEN 1 ELSE 0)

\* await createExam(data).unwrap() resolves: onComplete() / onUpdateComplete().
RequestFulfilled(latest) ==
    /\ Answerable(latest)
    /\ inflight' = inflight - 1
    /\ latestPending' = (latestPending /\ ~latest)
    /\ succeeded' = succeeded + 1
    /\ completed' = completed + 1
    /\ view' = "done"
    /\ Unmount
    /\ UNCHANGED <<outsideWizard, kind, exam, queue, pristine, now>>

\* unwrap() rejects: console.error, nothing else.
RequestRejected(latest) ==
    /\ Answerable(latest)
    /\ inflight' = inflight - 1
    /\ latestPending' = (latestPending /\ ~latest)
    /\ UNCHANGED <<outsideWizard, kind, exam, view, step, form, queue, succeeded, completed,
                   pristine, adhoc, now>>

\* The Cancel button (onBack / onCancel), rendered while step is not > 1.
Cancel ==
    /\ SchemaDriven /\ Mounted /\ Settled /\ step <= 1
    /\ view' = "left"
    /\ Unmount
    /\ UNCHANGED <<outsideWizard, kind, exam, queue, RequestVars, pristine, now>>


(***************************************************************************)
(* The ad-hoc creation component: local state, no schema, no request.      *)
(***************************************************************************)
Adhoc == kind = "adhoc"

RECURSIVE DigitPrefix(_)
DigitPrefix(s) ==
    IF s = <<>> \/ ~IsDigit(s[1]) THEN <<>> ELSE <<s[1]>> \o DigitPrefix(Tail(s))

\* parseInt(e.target.value) || 0
ParseIntOrZero(s) ==
    LET negative == s # <<>> /\ s[1] = "-"
        digits == DigitPrefix(IF negative THEN Tail(s) ELSE s)
    IN  IF digits = <<>> THEN 0
        ELSE IF negative THEN 0 - DigitsToNat(digits) ELSE DigitsToNat(digits)

RECURSIVE FilterOutId(_, _)
FilterOutId(qs, id) ==
    IF qs = <<>> THEN <<>>
    ELSE IF Head(qs).id # id THEN <<Head(qs)>> \o FilterOutId(Tail(qs), id)
    ELSE FilterOutId(Tail(qs), id)

\* canProceed(): case 1: examTitle && examSubject; case 2: questions.length > 0.
canProceed ==
    CASE step = 1 -> adhoc.examTitle # "" /\ adhoc.examSubject # ""
      [] step = 2 -> Len(adhoc.questions) > 0
      [] OTHER -> FALSE

AdhocFrame == <<outsideWizard, kind, exam, view, step, form, queue, RequestVars, pristine, now>>

\* onChange of the three inputs of step 1.
AdhocDetailsInput(name, v) ==
    /\ Adhoc /\ Mounted /\ step = 1
    /\ adhoc[name] # v
    /\ adhoc' = [adhoc EXCEPT ![name] = v]
    /\ UNCHANGED AdhocFrame

\* onChange of the "new question" text and answer inputs of step 2.
AdhocNewQuestionInput(name, v) ==
    /\ Adhoc /\ Mounted /\ step = 2
    /\ adhoc.newQuestion[name] # v
    /\ adhoc' = [adhoc EXCEPT !.newQuestion[name] = v]
    /\ UNCHANGED AdhocFrame

\* onChange of the points input: points: parseInt(e.target.value) || 0.
AdhocPointsInput(typed) ==
    /\ Adhoc /\ Mounted /\ step = 2
    /\ adhoc.newQuestion.points # ParseIntOrZero(typed.s)
    /\ adhoc' = [adhoc EXCEPT !.newQuestion.points = ParseIntOrZero(typed.s)]
    /\ UNCHANGED AdhocFrame

\* addQuestion with newQuestion.text && newQuestion.answer (otherwise the
\* handler returns without effect).
addQuestion ==
    /\ Adhoc /\ Mounted /\ step = 2
    /\ adhoc.newQuestion.text # "" /\ adhoc.newQuestion.answer # ""
    /\ Len(adhoc.questions) < MaxQuestions
    /\ adhoc' = [adhoc EXCEPT
                    !.questions = Append(@, [id |-> now,
                                             text |-> adhoc.newQuestion.text,
                                             points |-> adhoc.newQuestion.points,
                                             answer |-> adhoc.newQuestion.answer]),
                    !.newQuestion = [text |-> "", points |-> 10, answer |-> ""]]
    /\ UNCHANGED AdhocFrame

\* removeQuestion(id): setQuestions(questions.filter(q => q.id !== id))
removeQuestion(id) ==
    /\ Adhoc /\ Mounted /\ step = 2
    /\ \E i \in 1..Len(adhoc.questions) : adhoc.questions[i].id = id
    /\ adhoc' = [adhoc EXCEPT !.questions = FilterOutId(@, id)]
    /\ UNCHANGED AdhocFrame

\* Previous: setStep(Math.max(1, step - 1)), disabled at step 1.
AdhocPrevious ==
    /\ Adhoc /\ Mounted /\ step # 1
    /\ step' = IF step - 1 > 1 THEN step - 1 ELSE 1
    /\ UNCHANGED <<outsideWizard, kind, exam, view, form, queue, RequestVars, pristine, adhoc, now>>

\* Next: setStep(step + 1), rendered while step < 3, disabled={!canProceed()}.
AdhocNext ==
    /\ Adhoc /\ Mounted /\ step < 3
    /\ canProceed
    /\ step' = step + 1
    /\ UNCHANGED <<outsideWizard, kind, exam, view, form, queue, RequestVars, pristine, adhoc, now>>

\* completeExam: toast and onComplete(); the button replaces Next at step 3.
completeExam ==
    /\ Adhoc /\ Mounted /\ step >= 3
    /\ completed' = completed + 1
    /\ view' = "done"
    /\ Unmount
    /\ UNCHANGED <<outsideWizard, kind, exam, queue, inflight, latestPending, succeeded,
                   pristine, now>>

\* "Back to Home" (onBack), always rendered.
AdhocBackToHome ==
    /\ Adhoc /\ Mounted
    /\ view' = "left"
    /\ Unmount
    /\ UNCHANGED <<outsideWizard, kind, exam, queue, RequestVars, pristine, now>>

\* The clock read by Date.now() advances.
Tick ==
    /\ Adhoc /\ Mounted
    /\ now < MaxClock
    /\ now' = now + 1
    /\ UNCHANGED <<outsideWizard, kind, exam, view, step, form, queue, RequestVars, pristine, adhoc>>

WizardNext ==
    \/ \E name \in DetailNames, v \in Str : ExamDetailsStepInput(name, v)
    \/ \E index \in 1..MaxQuestions, name \in {"text", "ideal_answer"}, v \in Str :
            QuestionsStepTextInput(index, name, v)
    \/ \E index \in 1..MaxQuestions, v \in TypedMarks : QuestionsStepMarkInput(index, v)
    \/ append
    \/ \E index \in 1..MaxQuestions : remove(index)
    \/ handleNext
    \/ handleBack
    \/ SubmitButton
    \/ ImplicitSubmit
    \/ ResolveNext
    \/ ResolveSubmitValid
    \/ ResolveSubmitInvalid
    \/ \E latest \in BOOLEAN : RequestFulfilled(latest)
    \/ \E latest \in BOOLEAN : RequestRejected(latest)
    \/ Cancel
    \/ \E name \in {"examTitle", "examSubject", "examInstructions"}, v \in Str :
            AdhocDetailsInput(name, v)
    \/ \E name \in {"text", "answer"}, v \in Str : AdhocNewQuestionInput(name, v)
    \/ \E typed \in TypedMarks : AdhocPointsInput(typed)
    \/ addQuestion
    \/ \E id \in 0..MaxClock : removeQuestion(id)
    \/ AdhocPrevious
    \/ AdhocNext
    \/ completeExam
    \/ AdhocBackToHome
    \/ Tick


(***************************************************************************)
(* SubmissionPage: selecting or dropping a file and the placeholder upload. *)
(***************************************************************************)
Pdf == "application/pdf"

\* The files a user can pick or drop; the last one has no registered type.
Files ==
    {[name |-> "a.pdf", type |-> Pdf], [name |-> "b.pdf", type |-> Pdf],
     [name |-> "c.png", type |-> "image/png"], [name |-> "d.pdf", type |-> ""]}

\* null (selectedFile) and undefined (files?.[0] of an empty FileList).
NoFile == [name |-> "", type |-> "<none>"]

NoMessage == [type |-> "none", text |-> <<>>]

ReadyMessage(file) == [type |-> "success", text |-> <<file.name, " is ready for upload.">>]

NotPdfMessage == [type |-> "error", text |-> <<"Please upload a PDF file.">>]

UploadingMessage(file) == [type |-> "info", text |-> <<"Uploading ", file.name>>]

UploadedMessage(file) ==
    [type |-> "success", text |-> <<file.name, " has been uploaded successfully.">>]

NoFileToSubmitMessage ==
    [type |-> "error", text |-> <<"Please select a PDF file to submit.">>]

Event(name, file) == [name |-> name, file |-> file]

SubmissionPageInit ==
    /\ selectedFile = NoFile
    /\ isDragActive = FALSE
    /\ message = NoMessage
    /\ timers = <<>>
    /\ lastEvent = Event("none", NoFile)

\* Mutant: the type of the file is not looked at.
AcceptsAnyFile(file) == file # NoFile

\* file && file.type === 'application/pdf'
AcceptsFile(file) == file # NoFile /\ file.type = Pdf

handleFileProcessing(file) ==
    IF AcceptsFile(file)
    THEN selectedFile' = file /\ message' = ReadyMessage(file)
    ELSE selectedFile' = NoFile /\ message' = NotPdfMessage

handleDragEnter ==
    /\ isDragActive' = TRUE
    /\ lastEvent' = Event("dragenter", NoFile)
    /\ UNCHANGED <<wizardVars, apiVars, indexVars, selectedFile, message, timers>>

handleDragLeave ==
    /\ isDragActive' = FALSE
    /\ lastEvent' = Event("dragleave", NoFile)
    /\ UNCHANGED <<wizardVars, apiVars, indexVars, selectedFile, message, timers>>

\* files: event.dataTransfer.files; only files[0] is processed, and only
\* when the list is not empty.
handleDrop(files) ==
    /\ isDragActive' = FALSE
    /\ lastEvent' = Event("drop", IF Len(files) > 0 THEN files[1] ELSE NoFile)
    /\ IF Len(files) > 0
       THEN handleFileProcessing(files[1])
       ELSE UNCHANGED <<selectedFile, message>>
    /\ UNCHANGED <<wizardVars, apiVars, indexVars, timers>>

\* onChange of either file input; file: event.target.files?.[0].
handleFileChange(file) ==
    /\ lastEvent' = Event("change", file)
    /\ handleFileProcessing(file)
    /\ UNCHANGED <<wizardVars, apiVars, indexVars, isDragActive, timers>>

\* onClick of <Button disabled={!selectedFile}>.
handleSubmit ==
    /\ selectedFile # NoFile
    /\ Len(timers) < MaxTimers
    /\ lastEvent' = Event("click", selectedFile)
    /\ IF selectedFile # NoFile
       THEN /\ message' = UploadingMessage(selectedFile)
            /\ timers' = Append(timers, selectedFile)
       ELSE /\ message' = NoFileToSubmitMessage
            /\ timers' = timers
    /\ UNCHANGED <<wizardVars, apiVars, indexVars, selectedFile, isDragActive>>

\* The setTimeout(..., 2000) callback; equal delays fire in the order set.
UploadTimeout ==
    /\ timers # <<>>
    /\ message' = UploadedMessage(Head(timers))
    /\ selectedFile' = NoFile
    /\ timers' = Tail(timers)
    /\ lastEvent' = Event("timeout", Head(timers))
    /\ UNCHANGED <<wizardVars, apiVars, indexVars, isDragActive>>

SubmissionNext ==
    \/ handleDragEnter
    \/ handleDragLeave
    \/ \E files \in {<<>>} \cup {<<f>> : f \in Files} : handleDrop(files)
    \/ \E file \in Files \cup {NoFile} : handleFileChange(file)
    \/ handleSubmit
    \/ UploadTimeout


(***************************************************************************)
(* The exam API (RTK Query endpoints), its cache, and the pages that use   *)
(* it.  An exam of the server is its id and the revision of its content.   *)
(* Invalidation is the library's default of version 2: it waits until no   *)
(* query and no mutation is pending.  'Exam' is missing from the slice's   *)
(* tagTypes; at run time that only logs an error.                          *)
(***************************************************************************)
ExamRecord(id, rev) == [id |-> id, rev |-> rev]

InitialBackend == {ExamRecord(1, 0), ExamRecord(2, 0)}

FirstNewId == 3

Ids(exams) == {e.id : e \in exams}

\* params.id of /exams/[id] and /exams/[id]/edit.
RouteIds ==
    {UndefinedV, StrV(<<"a", "b", "c">>), StrV(<<"0">>), StrV(<<"1">>),
     StrV(<<"-", "3">>)}

HomeRoute == [name |-> "home", id |-> UndefinedV]

ExamsRoute == [name |-> "exams", id |-> UndefinedV]

PageRoute(name, id) == [name |-> name, id |-> id]

Routes ==
    {HomeRoute, ExamsRoute}
        \cup {PageRoute(name, id) : name \in {"detail", "edit"}, id \in RouteIds}

\* const examId = Number(params.id)
examId(r) == Number(r.id)

\* skip: !examId
Skip(r) == Falsy(examId(r))

ListKey == [endpoint |-> "getExams", arg |-> 0]

ByIdKey(n) == [endpoint |-> "getExamById", arg |-> n]

CacheKeys ==
    {ListKey} \cup {ByIdKey(examId(r).n) : r \in {x \in Routes : ~Skip(x)}}

Queries == {"getExams", "getExamById"}

NoEntry == [status |-> "absent", data |-> {}, fulfilled |-> FALSE, tags |-> {}]

Tag(id) == [type |-> "Exam", id |-> id]

ListTag == Tag(StrV(<<"L", "I", "S", "T">>))

\* The tag 'Exam' without an id.
TypeTag == Tag(UndefinedV)

\* providesTags of getExams and getExamById.
ProvidesTags(key, ok, result) ==
    IF key.endpoint = "getExams"
    THEN IF ok THEN {Tag(NumV(e.id)) : e \in result} \cup {ListTag} ELSE {ListTag}
    ELSE {Tag(NumV(key.arg))}

\* Mutant: updateExam invalidates the single exam only.
InvalidatesTagsUpdateWithoutList(endpoint, arg) ==
    CASE endpoint = "createExam" -> {TypeTag}
      [] endpoint = "updateExam" -> {Tag(NumV(arg))}
      [] endpoint = "deleteExam" -> {ListTag}

\* Mutant: deleteExam declares no tag.
InvalidatesTagsDeleteNone(endpoint, arg) ==
    CASE endpoint = "createExam" -> {TypeTag}
      [] endpoint = "updateExam" -> {Tag(NumV(arg)), ListTag}
      [] endpoint = "deleteExam" -> {}

\* invalidatesTags of createExam, updateExam and deleteExam.
InvalidatesTags(endpoint, arg) ==
    CASE endpoint = "createExam" -> {TypeTag}
      [] endpoint = "updateExam" -> {Tag(NumV(arg)), ListTag}
      [] endpoint = "deleteExam" -> {ListTag}

\* Mutant: every tag invalidates the provided tags of its type.
TagMatchesByType(tag, provided) == provided.type = tag.type

\* A tag without id invalidates every provided tag of its type.
TagMatches(tag, provided) ==
    IF tag.id = UndefinedV THEN provided.type = tag.type ELSE provided = tag

InvalidatedBy(q, tags) ==
    {k \in CacheKeys : \E t \in tags, p \in q[k].tags : TagMatches(t, p)}

\* The query hook of the page shown subscribes to its cache key.
Subscribed(r, key) ==
    \/ r.name = "exams" /\ key = ListKey
    \/ r.name \in {"detail", "edit"} /\ ~Skip(r) /\ key = ByIdKey(examId(r).n)

Request(endpoint, arg) ==
    [endpoint |-> endpoint, arg |-> arg, phase |-> "sent", ok |-> FALSE, data |-> {}]

\* A subscribing hook starts a request unless one is pending or the entry
\* was fulfilled before.
ShouldFetch(entry) == entry.status # "pending" /\ ~entry.fulfilled

StartFetch(q, net, keys) ==
    [queries |-> [k \in CacheKeys |->
                    IF k \in keys THEN [q[k] EXCEPT !.status = "pending"] ELSE q[k]],
     network |-> net \cup {Request(k.endpoint, k.arg) : k \in keys}]

\* The hooks of route r mount.
Mounting(q, net, r) ==
    StartFetch(q, net, {k \in CacheKeys : Subscribed(r, k) /\ ShouldFetch(q[k])})

\* hasPendingRequests: a query or a mutation is pending.
HasPendingRequests(q, net) ==
    \/ \E k \in CacheKeys : q[k].status = "pending"
    \/ \E r \in net : r.endpoint \notin Queries

\* Invalidated entries without subscriber are removed, the others refetched.
Invalidate(q, net, tags, r) ==
    LET hit == InvalidatedBy(q, tags)
        removed == {k \in hit : ~Subscribed(r, k)}
        kept == [k \in CacheKeys |-> IF k \in removed THEN NoEntry ELSE q[k]]
    IN  StartFetch(kept, net, {k \in hit : Subscribed(r, k) /\ q[k].status # "absent"})

StoreInit ==
    /\ route = HomeRoute
    /\ backend = InitialBackend
    /\ nextId = FirstNewId
    /\ queries = [k \in CacheKeys |-> NoEntry]
    /\ network = {}
    /\ pendingTagInvalidations = {}
    /\ started = 0
    /\ acknowledged = {}

\* ExamListView as the pages were written for it: without pagination_class.
ApiInit == StoreInit /\ paginated = FALSE

OutsideApi == <<wizardVars, submissionVars, indexVars>>

ServerVars == <<backend, nextId, paginated>>

\* A link, the address bar or the router shows another page.
Navigate(r) ==
    /\ r # route
    /\ Cardinality(Mounting(queries, network, r).network) <= MaxRequests
    /\ route' = r
    /\ queries' = Mounting(queries, network, r).queries
    /\ network' = Mounting(queries, network, r).network
    /\ UNCHANGED <<OutsideApi, ServerVars, pendingTagInvalidations, started, acknowledged>>

\* keepUnusedDataFor: an entry without subscriber is dropped from the cache.
CacheEntryExpires(key) ==
    /\ ~Subscribed(route, key)
    /\ queries[key].status \notin {"absent", "pending"}
    /\ queries' = [queries EXCEPT ![key] = NoEntry]
    /\ UNCHANGED <<OutsideApi, ServerVars, route, network, pendingTagInvalidations,
                   started, acknowledged>>

StartMutation(endpoint, arg) ==
    /\ started < MaxMutations
    /\ Cardinality(network) < MaxRequests
    /\ Request(endpoint, arg) \notin network
    /\ network' = network \cup {Request(endpoint, arg)}
    /\ started' = started + 1
    /\ UNCHANGED <<OutsideApi, ServerVars, route, queries, pendingTagInvalidations,
                   acknowledged>>

\* createExam(data), from the creation wizard of the home page.
createExam ==
    /\ route.name = "home"
    /\ StartMutation("createExam", 0)

\* The edit page renders the form unless isLoading or isError || !exam.
EditFormShown ==
    /\ route.name = "edit" /\ ~Skip(route)
    /\ queries[ByIdKey(examId(route).n)].fulfilled
    /\ queries[ByIdKey(examId(route).n)].status # "rejected"

\* updateExam({ id: exam.id, examData }), from the edit form.
updateExam ==
    /\ EditFormShown
    /\ \E e \in queries[ByIdKey(examId(route).n)].data : StartMutation("updateExam", e.id)

\* The list renders the exams unless isLoading or error.
ListShown ==
    /\ route.name = "exams"
    /\ queries[ListKey].fulfilled
    /\ queries[ListKey].status # "rejected"

\* handleDelete(id) of an exam of the list: deleteExam(id).
deleteExam(id) ==
    /\ ListShown
    /\ id \in Ids(queries[ListKey].data)
    /\ StartMutation("deleteExam", id)

\* The server handles a request; fails: it answers with an error instead.
Serve(req, fails) ==
    /\ req \in network /\ req.phase = "sent"
    /\ LET found == {e \in backend : e.id = req.arg}
           ok == ~fails /\ (req.endpoint \in {"getExams", "createExam"} \/ found # {})
           result ==
               CASE req.endpoint = "getExams" -> backend
                 [] req.endpoint = "getExamById" -> found
                 [] req.endpoint = "createExam" -> {ExamRecord(nextId, 0)}
                 [] req.endpoint = "updateExam" -> {ExamRecord(e.id, e.rev + 1) : e \in found}
                 [] req.endpoint = "deleteExam" -> {}
       IN  /\ network' = (network \ {req}) \cup
                  {[req EXCEPT !.phase = "served", !.ok = ok,
                               !.data = IF ok THEN result ELSE {}]}
           /\ backend' =
                 IF ~ok THEN backend
                 ELSE CASE req.endpoint = "createExam" -> backend \cup result
                        [] req.endpoint = "updateExam" -> (backend \ found) \cup result
                        [] req.endpoint = "deleteExam" -> backend \ found
                        [] OTHER -> backend
           /\ nextId' = IF ok /\ req.endpoint = "createExam" THEN nextId + 1 ELSE nextId
    /\ UNCHANGED <<OutsideApi, route, queries, pendingTagInvalidations, started,
                   acknowledged, paginated>>

\* result.map of getExams' providesTags: the body of a paginated answer is the
\* object {count, next, previous, results}, which has no map; the TypeError
\* leaves the reducer before the store has changed.
ProvidesTagsThrows(key, ok) == key.endpoint = "getExams" /\ ok /\ paginated

\* The client handles an answer: the cache entry of a query is updated, the
\* tags of a mutation are invalidated (once nothing is pending), and a
\* successful update runs onUpdateComplete: router.push('/exams').
Deliver(req) ==
    /\ req \in network /\ req.phase = "served"
    /\ LET key == [endpoint |-> req.endpoint, arg |-> req.arg]
           isQuery == req.endpoint \in Queries
           net1 == network \ {req}
           q1 == IF isQuery /\ ~ProvidesTagsThrows(key, req.ok)
                 THEN [queries EXCEPT ![key] =
                          [status |-> IF req.ok THEN "fulfilled" ELSE "rejected",
                           data |-> IF req.ok THEN req.data ELSE @.data,
                           fulfilled |-> @.fulfilled \/ req.ok,
                           tags |-> ProvidesTags(key, req.ok, req.data)]]
                 ELSE queries
           tags1 == pendingTagInvalidations \cup
                        (IF isQuery THEN {} ELSE InvalidatesTags(req.endpoint, req.arg))
           blocked == HasPendingRequests(q1, net1)
           inv == IF blocked THEN [queries |-> q1, network |-> net1]
                  ELSE Invalidate(q1, net1, tags1, route)
           route1 == IF req.endpoint = "updateExam" /\ req.ok THEN ExamsRoute ELSE route
           mounted == IF route1 # route THEN Mounting(inv.queries, inv.network, route1)
                      ELSE inv
       IN  /\ queries' = mounted.queries
           /\ network' = mounted.network
           /\ pendingTagInvalidations' = IF blocked THEN tags1 ELSE {}
           /\ route' = route1
           /\ acknowledged' = IF ~isQuery /\ req.ok
                              THEN acknowledged \cup {key} ELSE acknowledged
    /\ UNCHANGED <<OutsideApi, ServerVars, started>>

\* The pages of exam 1, the list and the home page.
ExamRoutes ==
    {HomeRoute, ExamsRoute}
        \cup {PageRoute(name, StrV(<<"1">>)) : name \in {"detail", "edit"}}

ApiNext ==
    \/ \E r \in ExamRoutes : Navigate(r)
    \/ \E key \in CacheKeys : CacheEntryExpires(key)
    \/ createExam
    \/ updateExam
    \/ \E id \in 1..FirstNewId : deleteExam(id)
    \/ \E req \in network, fails \in BOOLEAN : Serve(req, fails)
    \/ \E req \in network : Deliver(req)

\* Browsing only: every page with every route id, no mutation.
PagesNext ==
    \/ \E r \in Routes : Navigate(r)
    \/ \E key \in CacheKeys : CacheEntryExpires(key)
    \/ \E req \in network, fails \in BOOLEAN : Serve(req, fails)
    \/ \E req \in network : Deliver(req)


(***************************************************************************)
(* Specifications: one per page; the other pages are not mounted.          *)
(***************************************************************************)
\* ExamDashboard: the state of a dashboard before any upload.
DashboardInit ==
    /\ uploadProgress = 0 /\ processing = FALSE
    /\ intervals = 0 /\ toasts = 0 /\ uploads = 0

\* No wizard is mounted.
NoWizard ==
    /\ kind = "create" /\ exam = NoExam /\ view = "left"
    /\ step = 1 /\ form = NoForm /\ queue = <<>>
    /\ inflight = 0 /\ latestPending = FALSE /\ succeeded = 0 /\ completed = 0
    /\ pristine = TRUE /\ adhoc = AdhocInitial /\ now = 0

\* The wizard was mounted n times; the page was loaded without query string.
Mounts(n) == sessions = n /\ search = "" /\ DashboardInit

Init == WizardInit /\ SubmissionPageInit /\ ApiInit /\ Mounts(1)

Next == WizardNext

Spec == Init /\ [][Next]_vars

(***************************************************************************)
(* ExamDashboard: the simulated upload of an answer sheet.                 *)
(***************************************************************************)
DashboardMounted == view = "done"

\* onChange of a student's file input, which processing does not disable:
\* setProcessing(true), setUploadProgress(0), setInterval(..., 200).
handleFileUpload ==
    /\ DashboardMounted
    /\ uploads < MaxUploads
    /\ processing' = TRUE
    /\ uploadProgress' = 0
    /\ intervals' = intervals + 1
    /\ uploads' = uploads + 1
    /\ UNCHANGED <<wizardVars, submissionVars, apiVars, sessions, search, toasts>>

\* Mutant: the updater adds 10 whatever the progress is.
ProgressAlwaysAdvances(prev) == prev + 10

\* The updater handed to setUploadProgress: the next progress value.
NextProgress(prev) == IF prev >= 100 THEN 100 ELSE prev + 10

\* A tick of one of the running intervals.  The updater of a mounted
\* component runs; a state update of an unmounted component is dropped with
\* its updater, which is the only place where the interval is cleared.
IntervalTick ==
    /\ DashboardMounted
    /\ intervals > 0
    /\ uploadProgress' = NextProgress(uploadProgress)
    /\ IF uploadProgress >= 100
       THEN /\ intervals' = intervals - 1
            /\ processing' = FALSE
            /\ toasts' = toasts + 1
       ELSE UNCHANGED <<intervals, processing, toasts>>
    /\ UNCHANGED <<wizardVars, submissionVars, apiVars, sessions, search, uploads>>

\* Index: useState('home'), whatever the query string; ExamCreation is either
\* of the two components of that name.
Searches == {"", "view=create"}

IndexInit ==
    /\ kind \in {"create", "adhoc"} /\ exam = NoExam /\ view = "left"
    /\ step = 1 /\ form = NoForm /\ queue = <<>>
    /\ inflight = 0 /\ latestPending = FALSE /\ succeeded = 0 /\ completed = 0
    /\ pristine = TRUE /\ adhoc = AdhocInitial /\ now = 0
    /\ sessions = 0 /\ search \in Searches
    /\ DashboardInit

\* onClick={() => setCurrentView('create')}: ExamCreation mounts with
\* useState(1) and its default values.  The handlers of an earlier session
\* have run to their end before the next one is opened.
OpenCreation ==
    /\ kind \in {"create", "adhoc"} /\ view = "left"
    /\ Settled /\ inflight = 0
    /\ sessions < MaxSessions
    /\ sessions' = sessions + 1
    /\ view' = "wizard"
    /\ step' = 1
    /\ form' = IF kind = "create" THEN CreationDefaultValues ELSE NoForm
    /\ adhoc' = AdhocInitial
    /\ pristine' = TRUE
    /\ latestPending' = FALSE
    /\ UNCHANGED <<submissionVars, apiVars, search, dashboardVars, kind, exam, queue,
                   inflight, succeeded, completed, now>>

\* ExamDashboard's onBack: setCurrentView('home').
DashboardBack ==
    /\ kind \in {"create", "adhoc"} /\ view = "done"
    /\ view' = "left"
    /\ UNCHANGED <<submissionVars, apiVars, indexVars, kind, exam, step, form, queue,
                   RequestVars, pristine, adhoc, now>>

SessionsNext == WizardNext \/ OpenCreation \/ DashboardBack

InitSessions == IndexInit /\ SubmissionPageInit /\ ApiInit

SpecSessions == InitSessions /\ [][SessionsNext]_vars

DashboardNext == handleFileUpload \/ IntervalTick \/ DashboardBack

\* Index shows the dashboard: a creation was completed.
InitDashboard ==
    /\ kind = "create" /\ exam = NoExam /\ view = "done"
    /\ step = 1 /\ form = NoForm /\ queue = <<>>
    /\ inflight = 0 /\ latestPending = FALSE /\ succeeded = 1 /\ completed = 1
    /\ pristine = FALSE /\ adhoc = AdhocInitial /\ now = 0
    /\ SubmissionPageInit /\ ApiInit /\ Mounts(1)

SpecDashboard == InitDashboard /\ [][DashboardNext]_vars

\* The timers keep firing.
SpecDashboardFair == SpecDashboard /\ WF_vars(IntervalTick)

InitSubmission == NoWizard /\ SubmissionPageInit /\ ApiInit /\ Mounts(0)

SpecSubmission == InitSubmission /\ [][SubmissionNext]_vars

InitApi == NoWizard /\ SubmissionPageInit /\ ApiInit /\ Mounts(0)

SpecApi == InitApi /\ [][ApiNext]_vars

SpecPages == InitApi /\ [][PagesNext]_vars

\* Browsing against a server of either configuration.
InitShapes ==
    NoWizard /\ SubmissionPageInit /\ StoreInit /\ paginated \in BOOLEAN /\ Mounts(0)

SpecShapes == InitShapes /\ [][PagesNext]_vars

\* The server answers every request and the client handles every answer.
SpecApiFair ==
    /\ SpecApi
    /\ WF_vars(\E req \in network, fails \in BOOLEAN : Serve(req, fails))
    /\ WF_vars(\E req \in network : Deliver(req))


(***************************************************************************)
(* Vocabulary of the claims about the wizards.                             *)
(***************************************************************************)
WizardTitle == IF Adhoc THEN adhoc.examTitle ELSE form.title

WizardSubject == IF Adhoc THEN adhoc.examSubject ELSE form.subject

WizardQuestions == IF Adhoc THEN adhoc.questions ELSE form.questions

\* A validation was started by this step; NewEntry is its queue entry.
ValidationStarted == Len(queue') = Len(queue) + 1

NewEntry == queue'[Len(queue')]

\* A create / update request is issued by this step; SentPayload is its body.
RequestIssued == inflight' > inflight

SentPayload == Head(queue).data

\* The conditions the claims list for a form value or a payload.
PassesFullSchema(d) ==
    /\ d.title # "" /\ d.subject # "" /\ d.instructions # ""
    /\ Len(d.questions) >= 1
    /\ \A i \in 1..Len(d.questions) :
          d.questions[i].text # "" /\ d.questions[i].ideal_answer # ""

\* A mark as it reaches a payload: a number that is at least 1.
GoodMark(m) == m.t = "number" /\ m.n >= 1

\* C1: in the schema-driven creation wizard and in the edit wizard a submit
\* is accepted only when the form values of that moment pass the full schema
\* (title, subject, instructions non-empty, at least one question, every
\* question with text and ideal answer), and a create / update request is
\* issued only for an accepted submit, carrying values that pass it.
C1_RequestOnlyForValidForm ==
    [][ /\ (ValidationStarted /\ NewEntry.op = "submit" /\ NewEntry.ok)
            => PassesFullSchema(form)
        /\ RequestIssued
            => /\ queue # <<>> /\ Head(queue).op = "submit" /\ Head(queue).ok
               /\ PassesFullSchema(SentPayload) ]_vars

C1_Witness == SchemaDriven /\ inflight > 0 /\ succeeded = 0

\* A Next activation of a schema-driven wizard starts a validation.
NextActivated == SchemaDriven /\ ValidationStarted /\ NewEntry.op = "next"

\* The validation of a Next activation resolves as failed.
FailedNextResolves ==
    /\ queue # <<>> /\ Head(queue).op = "next" /\ ~Head(queue).ok
    /\ queue' = Tail(queue)

\* C2: in every wizard an advance from step 1 with an empty title or an empty
\* subject fails and leaves the step at 1: in the schema-driven wizards the
\* validation it starts fails, whatever the other fields hold, and a failed
\* validation does not change the step; in the ad-hoc wizard no step leaves
\* step 1 while title or subject is empty.
C2_EmptyTitleOrSubjectStaysAtStep1 ==
    [][ /\ (NextActivated /\ step = 1 /\ (form.title = "" \/ form.subject = ""))
            => ~NewEntry.ok
        /\ FailedNextResolves => step' = step
        /\ (Adhoc /\ Mounted /\ step = 1
                /\ (adhoc.examTitle = "" \/ adhoc.examSubject = ""))
            => step' = 1 ]_vars

C2_Witness ==
    /\ Mounted /\ step = 1 /\ form.title = "a" /\ form.subject = ""
    /\ form.instructions = "a"
    /\ queue # <<>> /\ Head(queue).op = "next" /\ ~Head(queue).ok

\* C3: in every wizard an advance from step 2 with an empty question list is
\* rejected: in the schema-driven wizards its validation fails and a failed
\* validation leaves the step as it is, a submit of a form without questions
\* is refused and every request issued carries at least one question; in the
\* ad-hoc wizard no step leads from step 2 to step 3 while the list is empty.
C3_NoQuestionsNoAdvance ==
    [][ /\ (NextActivated /\ step = 2 /\ Len(form.questions) = 0) => ~NewEntry.ok
        /\ FailedNextResolves => step' = step
        /\ (ValidationStarted /\ NewEntry.op = "submit" /\ Len(form.questions) = 0)
            => ~NewEntry.ok
        /\ RequestIssued
            => (queue # <<>> /\ Head(queue).ok /\ Len(SentPayload.questions) >= 1)
        /\ (Adhoc /\ Mounted /\ step = 2 /\ Len(adhoc.questions) = 0)
            => step' <= 2 ]_vars

C3_Witness ==
    /\ SchemaDriven /\ Mounted /\ step = 2 /\ Len(form.questions) = 0
    /\ queue # <<>> /\ Head(queue).op = "next" /\ ~Head(queue).ok

\* C4 (as claimed): in the creation wizard and in the edit wizard an advance
\* from step 2 with a question whose mark is non-numeric or less than 1 fails
\* with an error on that question's mark field, and no request carries such a
\* mark.
C4_BadMarkRejected ==
    [][ /\ (NextActivated /\ step = 2)
            => \A i \in 1..Len(form.questions) :
                  ~GoodMark(Number(form.questions[i].mark))
                     => /\ <<"mark", i>> \in SchemaErrors(kind, form)
                        /\ ~NewEntry.ok
        /\ RequestIssued
            => \A i \in 1..Len(SentPayload.questions) :
                  GoodMark(SentPayload.questions[i].mark) ]_vars

\* A create / update request is answered with a failure by this step.
RequestFailed == inflight' < inflight /\ succeeded' = succeeded

\* C5 (as claimed): in every wizard the completion callback is invoked by a
\* step exactly when a request of the session succeeds in it, once; a failed
\* request invokes no callback, leaves the step, the form values and the view
\* as they are and sends nothing.
C5_CallbackOncePerSuccess ==
    [][ /\ completed' - completed = succeeded' - succeeded
        /\ RequestFailed
            => (completed' = completed /\ step' = step /\ form' = form
                /\ view' = view /\ queue' = queue /\ ~RequestIssued) ]_vars

\* The title, subject, instructions and ordered question list of an exam,
\* each question with its id, text, ideal_answer, instructions and mark.
ExamFields(e) ==
    [title |-> e.title, subject |-> e.subject, instructions |-> e.instructions,
     questions |->
        [i \in 1..Len(e.questions) |->
            [id |-> e.questions[i].id,
             text |-> e.questions[i].text,
             ideal_answer |-> e.questions[i].ideal_answer,
             instructions |-> e.questions[i].instructions,
             mark |-> e.questions[i].mark]]]

\* C6: an update request issued by an edit wizard in which no field was
\* modified carries exactly the title, subject, instructions and questions
\* (id, text, ideal_answer, instructions, mark, in order) of the exam the
\* wizard was opened on.
C6_UnmodifiedRoundTrip ==
    [][ (RequestIssued /\ kind = "edit" /\ pristine)
            => SentPayload = ExamFields(exam) ]_vars

C6_Witness == kind = "edit" /\ pristine /\ inflight > 0 /\ Len(exam.questions) = 2


(***************************************************************************)
(* Vocabulary of the claims about the submission page.                     *)
(***************************************************************************)
PdfOrNone(file) == file = NoFile \/ file.type = Pdf

\* The event handled by this step offered a file (or none) for selection.
FileOffered(e) == e.name \in {"change", "drop"}

\* The placeholder upload is started by this step.
UploadStarted == Len(timers') > Len(timers)

\* C8 (as claimed): the selected file is none or a PDF; every selection or
\* drop of a non-PDF file or of no file clears the selection, shows the error
\* message and starts no upload; a submit without a selected file shows an
\* error and starts no upload.
C8_NonPdfOrNoFileClearsSelection ==
    [][ /\ PdfOrNone(selectedFile')
        /\ (FileOffered(lastEvent') /\ lastEvent'.file.type # Pdf)
            => (selectedFile' = NoFile /\ message' = NotPdfMessage /\ ~UploadStarted)
        /\ (lastEvent'.name = "click" /\ selectedFile = NoFile)
            => (message' = NoFileToSubmitMessage /\ ~UploadStarted) ]_vars

\* C8 (amended): the selected file is none or a PDF; a file input change with
\* a non-PDF file or no file, and a drop of a non-PDF file, clear the
\* selection, show the error message and start no upload; a drop that carries
\* no file leaves selection and message as they are and starts no upload; an
\* upload is started only by a submit with a selected PDF (the submit control
\* is disabled without one).
C8_NonPdfClearsSelection ==
    [][ /\ PdfOrNone(selectedFile')
        /\ (FileOffered(lastEvent') /\ lastEvent'.file.type # Pdf
                /\ ~(lastEvent'.name = "drop" /\ lastEvent'.file = NoFile))
            => (selectedFile' = NoFile /\ message' = NotPdfMessage /\ ~UploadStarted)
        /\ (lastEvent'.name = "drop" /\ lastEvent'.file = NoFile)
            => (UNCHANGED <<selectedFile, message>> /\ ~UploadStarted)
        /\ UploadStarted
            => /\ lastEvent'.name = "click"
               /\ selectedFile # NoFile /\ selectedFile.type = Pdf
               /\ timers' = Append(timers, selectedFile) ]_vars

\* A non-PDF file was dropped while the upload of a selected PDF was pending.
C8_Witness ==
    /\ lastEvent = Event("drop", [name |-> "c.png", type |-> "image/png"])
    /\ selectedFile = NoFile /\ message = NotPdfMessage
    /\ timers # <<>>


(***************************************************************************)
(* Vocabulary of the claims about the exam API and its pages.              *)
(***************************************************************************)
\* The ids whose delete has succeeded.
DeletedOk == {m.arg : m \in {x \in acknowledged : x.endpoint = "deleteExam"}}

MutationInFlight == \E r \in network : r.endpoint \notin Queries

\* The list view shows a result that no refetch is about to replace.
ListSettled ==
    /\ ListShown
    /\ queries[ListKey].status = "fulfilled"
    /\ pendingTagInvalidations = {}

\* C7: once the delete of an exam has succeeded, a list result displayed
\* after the automatic refetch does not contain that exam, and, no mutation
\* being in flight, it contains every exam the server holds under its id.
C7_DeletedExamLeavesList ==
    ListSettled
        => /\ Ids(queries[ListKey].data) \cap DeletedOk = {}
           /\ ~MutationInFlight => Ids(backend) \subseteq Ids(queries[ListKey].data)

C7_Witness ==
    /\ ListSettled /\ ~MutationInFlight
    /\ DeletedOk = {1}
    /\ Ids(queries[ListKey].data) = {2}

\* The mutations whose success the client handles in this step.
SucceededNow ==
    {r \in network : r \notin network' /\ r.endpoint \notin Queries
                        /\ r.phase = "served" /\ r.ok}

\* The cache entries the claim names for each mutation.
DeclaredEntries(r) ==
    CASE r.endpoint = "createExam" -> {ListKey}
      [] r.endpoint = "updateExam" -> {ByIdKey(r.arg), ListKey}
      [] r.endpoint = "deleteExam" -> {ListKey}

\* After this step the entry is gone, is being refetched, or its
\* invalidation waits for pending requests.
InvalidatedAfter(key) ==
    \/ queries'[key].status \in {"absent", "pending"}
    \/ key \in InvalidatedBy(queries', pendingTagInvalidations')

EachMutationInvalidates ==
    [][ \A r \in SucceededNow : \A key \in DeclaredEntries(r) : InvalidatedAfter(key) ]_vars

ListMountedAfterMutation == route.name = "exams" /\ acknowledged # {}

ListCurrent ==
    queries[ListKey].status = "fulfilled" /\ queries[ListKey].data = backend

ListError == queries[ListKey].status = "rejected"

\* C9 (as claimed): every successful mutation invalidates the entries named
\* for it (create: the list; update of X: the entry of X and the list;
\* delete: the list), and a list view mounted after a successful mutation
\* eventually shows the collection the server holds.
C9_ListEventuallyCurrent ==
    /\ EachMutationInvalidates
    /\ ListMountedAfterMutation ~> (route.name # "exams" \/ ListCurrent)

\* C9 (amended): as above, but the list view eventually shows the collection
\* the server holds or the error state of a rejected (re)fetch.
C9_ListEventuallyCurrentOrError ==
    /\ EachMutationInvalidates
    /\ ListMountedAfterMutation ~> (route.name # "exams" \/ ListCurrent \/ ListError)

C9_Witness ==
    /\ route.name = "exams" /\ ListCurrent
    /\ [endpoint |-> "updateExam", arg |-> 1] \in acknowledged
    /\ ExamRecord(1, 1) \in queries[ListKey].data

\* A route id that converts to a number usable as an exam identifier.
ValidRouteId(v) == Number(v).t = "number" /\ Number(v).n >= 1

\* The GET /core/exams/{id}/ requests sent by this step.
GetByIdSent == {r \in network' \ network : r.endpoint = "getExamById"}

\* C10 (as claimed): a GET /core/exams/{id}/ request is sent only by a detail
\* or edit page whose route id is valid, for that id; none is sent while the
\* route id is absent or invalid.
C10_RequestOnlyForValidId ==
    [][ \A r \in GetByIdSent :
            /\ route'.name \in {"detail", "edit"}
            /\ ValidRouteId(route'.id)
            /\ r.arg = Number(route'.id).n ]_vars


(***************************************************************************)
(* Claims about the shape of the list response.                            *)
(***************************************************************************)
\* A successful answer to GET /core/exams/ handled by this step.
ListAnswered == {r \in network \ network' : r.endpoint = "getExams" /\ r.phase = "served" /\ r.ok}

\* C11 (as claimed): whichever shape the server answers GET /core/exams/ with,
\* the plain array or the envelope {count, next, previous, results}, once the
\* answer is handled the list page displays exactly the exams of the array,
\* or of results, and is neither loading nor in its error state.
C11_BothShapesDisplayed ==
    [][ \A r \in ListAnswered :
            route'.name = "exams" => (ListShown' /\ queries'[ListKey].data = r.data) ]_vars


(***************************************************************************)
(* Claims about the steps of the wizards.                                  *)
(***************************************************************************)
\* C12 (as claimed): after any sequence of Next and Back activations in a
\* wizard, overlapping Next validations included, the step is 1, 2 or 3: Back
\* is never applied at step 1 and no successful advance is applied at step 3.
C12_StepInRange == step \in {1, 2, 3}

\* C13 (as claimed): no step is skipped: a schema-driven wizard comes to step
\* 3 only by an advance from step 2 whose validation of the whole form
\* succeeded, hence with values that pass the whole schema (values do not
\* change while a validation is unresolved); a second Next activated before
\* the first validation has resolved does not bring step 1 to step 3 with only
\* the step-1 fields validated.
C13_NoStepSkipped ==
    [][ (SchemaDriven /\ Mounted /\ step < 3 /\ step' >= 3)
            => /\ step = 2 /\ step' = 3
               /\ queue # <<>> /\ Head(queue).op = "next" /\ Head(queue).ok
               /\ SchemaErrors(kind, form) = {} ]_vars

QuestionIds(qs) == {qs[i].id : i \in 1..Len(qs)} \ {NoId}

\* C15: in the edit wizard, whatever was appended, removed and edited, every
\* question id of an update payload is an id of the fetched exam, appears at
\* most once and is attached to the entry it was loaded with (the entry with
\* that exam question's instructions, which no input edits); an appended
\* question carries no id; the id of a removed question leaves the form, no
\* step brings an id into the form, and a payload carries the ids of the
\* form it was parsed from, entry by entry.
C15_PayloadIdsAreLoadedIds ==
    [][ kind = "edit" =>
        LET qs == form.questions
            new == form'.questions
        IN  /\ RequestIssued
                => LET sent == SentPayload.questions
                   IN  /\ \A i \in 1..Len(sent) :
                             sent[i].id # NoId
                               => \E j \in 1..Len(exam.questions) :
                                     /\ exam.questions[j].id = sent[i].id
                                     /\ exam.questions[j].instructions = sent[i].instructions
                       /\ \A i, j \in 1..Len(sent) :
                             (i # j /\ sent[i].id # NoId) => sent[i].id # sent[j].id
            /\ append => new[Len(new)].id = NoId
            /\ \A index \in 1..MaxQuestions :
                  (remove(index) /\ qs[index].id # NoId)
                      => qs[index].id \notin QuestionIds(new)
            /\ QuestionIds(new) \subseteq QuestionIds(qs)
            /\ (ValidationStarted /\ NewEntry.op = "submit" /\ NewEntry.ok)
                => /\ Len(NewEntry.data.questions) = Len(qs)
                   /\ \A i \in 1..Len(qs) : NewEntry.data.questions[i].id = qs[i].id ]_vars

\* An update request is in flight after the first question of exam 2 was
\* removed and a question appended.
C15_Witness ==
    /\ kind = "edit" /\ inflight > 0 /\ Len(form.questions) = 2
    /\ form.questions[1].id = 22 /\ form.questions[2].id = NoId


(***************************************************************************)
(* Claims about the requests of a wizard session.                          *)
(***************************************************************************)
\* C16 (as claimed): within one wizard session at most one create / update
\* request is in flight: a submit activated while an earlier submission is
\* unresolved, in its validation or in its request, issues no second request.
C16_AtMostOneRequestInFlight == inflight <= 1

\* C17 (as claimed): navigating away abandons a request in flight: once the
\* wizard was left (Cancel to the home view, or leaving the edit page), the
\* later success of its request changes neither the current view nor the
\* route.
C17_LeftWizardStaysLeft ==
    [][ /\ view = "left" => view' = "left"
        /\ \A r \in network \ network' :
              (r.endpoint = "updateExam" /\ r.phase = "served" /\ route.name # "edit")
                  => route' = route ]_vars


(***************************************************************************)
(* What the list, detail and edit pages render.                            *)
(***************************************************************************)
\* The cache entry behind the query hook of page r; a skipped hook has none.
HookEntry(r) ==
    IF r.name = "exams" THEN queries[ListKey]
    ELSE IF Skip(r) THEN NoEntry
    ELSE queries[ByIdKey(examId(r).n)]

\* isLoading of a query hook: fetching without a result so far.
QueryIsLoading(entry) == entry.status = "pending" /\ ~entry.fulfilled

\* ExamList: skeleton, alert, "No exams found", or the exams.
ExamListView(entry) ==
    IF QueryIsLoading(entry) THEN "loading"
    ELSE IF entry.status = "rejected" THEN "error"
    ELSE IF ~entry.fulfilled \/ entry.data = {} THEN "empty"
    ELSE "data"

\* ExamDetailPage: if (isLoading || !id) skeleton; alert; "Exam not found."
ExamDetailView(r, entry) ==
    IF QueryIsLoading(entry) \/ Skip(r) THEN "loading"
    ELSE IF entry.status = "rejected" THEN "error"
    ELSE IF ~entry.fulfilled THEN "empty"
    ELSE "data"

\* EditExamPage: if (isLoading) skeleton; if (isError || !exam) alert.
EditExamView(entry) ==
    IF QueryIsLoading(entry) THEN "loading"
    ELSE IF entry.status = "rejected" \/ ~entry.fulfilled THEN "error"
    ELSE "data"

PageView ==
    CASE route.name = "exams" -> ExamListView(HookEntry(route))
      [] route.name = "detail" -> ExamDetailView(route, HookEntry(route))
      [] route.name = "edit" -> EditExamView(HookEntry(route))
      [] OTHER -> "none"

\* C18 (as claimed): on the list, detail and edit pages, whenever the query
\* of the page is not pending (it succeeded, failed or was skipped) the page
\* shows the data, the error alert or a not-found / empty message, never the
\* loading placeholder, and a failed query shows the error alert.
C18_SettledPageNotLoading ==
    (route.name \in {"exams", "detail", "edit"} /\ HookEntry(route).status # "pending")
        => /\ PageView \in {"data", "error", "empty"}
           /\ HookEntry(route).status = "rejected" => PageView = "error"


(***************************************************************************)
(* Claims comparing the two schemas.                                       *)
(***************************************************************************)
\* The parsed questions of the edit schema without their id.
WithoutIds(questions) ==
    [i \in 1..Len(questions) |->
        [text |-> questions[i].text, ideal_answer |-> questions[i].ideal_answer,
         instructions |-> questions[i].instructions, mark |-> questions[i].mark]]

\* C19 (as claimed): the edit schema accepts exactly the form values the
\* creation schema accepts, and for accepted values both produce the same
\* payload, the optional question id apart.
C19_SchemasEquivalent ==
    (SchemaDriven /\ Mounted)
        => /\ (EditSchemaErrors(form) = {}) <=> (CreationSchemaErrors(form) = {})
           /\ (EditSchemaErrors(form) = {} /\ CreationSchemaErrors(form) = {})
                => [EditSchemaOutput(form) EXCEPT !.questions = WithoutIds(@)]
                       = CreationSchemaOutput(form)


(***************************************************************************)
(* Claims about the advance from step 1.                                   *)
(***************************************************************************)
\* C20: in the schema-driven wizards the validation of an advance from step 1
\* succeeds if and only if title, subject and instructions are all non-empty
\* when it is activated, whatever the question list holds; resolved at step
\* 1 it makes the step 2 when it succeeded and leaves it at 1 when it failed,
\* and nothing but a successful validation takes a mounted wizard off step 1.
C20_Step1AdvanceIffDetails ==
    [][ /\ (NextActivated /\ step = 1)
            => (NewEntry.ok <=>
                   (form.title # "" /\ form.subject # "" /\ form.instructions # ""))
        /\ (SchemaDriven /\ Mounted /\ step = 1 /\ queue # <<>>
                /\ Head(queue).op = "next" /\ queue' = Tail(queue))
            => step' = IF Head(queue).ok THEN 2 ELSE 1
        /\ (SchemaDriven /\ Mounted /\ step = 1 /\ view' = "wizard" /\ step' # 1)
            => (step' = 2 /\ queue # <<>> /\ Head(queue).op = "next" /\ Head(queue).ok) ]_vars

\* The creation wizard came to step 2 with its blank default question.
C20_Witness ==
    /\ kind = "create" /\ Mounted /\ step = 2 /\ queue = <<>>
    /\ form.questions = <<DefaultQuestion>>


(***************************************************************************)
(* Claims about the keys of the question entries.                          *)
(***************************************************************************)
\* C21 (as claimed): the question entries a wizard session holds have keys
\* that are unique among the entries of the list and that do not change when
\* other entries are added; so, in the ad-hoc creation component,
\* removeQuestion(id) removes exactly one entry, whatever addQuestion calls
\* came before, calls at the same clock reading included.
C21_KeysUniqueAndStable ==
    [][ Adhoc =>
        LET qs == adhoc.questions
            new == adhoc'.questions
        IN  /\ \A i, j \in 1..Len(new) : i # j => new[i].id # new[j].id
            /\ addQuestion => \A i \in 1..Len(qs) : new[i].id = qs[i].id
            /\ \A id \in 0..MaxClock : removeQuestion(id) => Len(new) = Len(qs) - 1 ]_vars


(***************************************************************************)
(* Claims about the sessions of the creation wizard on the landing page.   *)
(***************************************************************************)
\* C22: every session of the creation wizard starts at step 1 with the
\* initial default values (empty title, subject and instructions; in the
\* schema-driven wizard one blank question with mark 10, in the ad-hoc one no
\* question), whether the earlier session was cancelled or completed, and a
\* request is issued only by a session in which values were entered.
C22_SessionStartsFresh ==
    [][ /\ (view # "wizard" /\ view' = "wizard")
            => /\ step' = 1
               /\ kind = "create"
                    => /\ form'.title = "" /\ form'.subject = "" /\ form'.instructions = ""
                       /\ Len(form'.questions) = 1
                       /\ form'.questions[1].text = ""
                       /\ form'.questions[1].ideal_answer = ""
                       /\ form'.questions[1].mark = NumV(10)
               /\ kind = "adhoc"
                    => /\ adhoc'.examTitle = "" /\ adhoc'.examSubject = ""
                       /\ adhoc'.examInstructions = "" /\ adhoc'.questions = <<>>
                       /\ adhoc'.newQuestion = [text |-> "", points |-> 10, answer |-> ""]
        /\ RequestIssued => ~pristine ]_vars

\* A second session, opened after the first was completed, has sent a request.
C22_Witness ==
    /\ kind = "create" /\ sessions = 2 /\ Mounted /\ completed = 1 /\ inflight = 1


(***************************************************************************)
(* Claims about the empty question list.                                   *)
(***************************************************************************)
\* C23: at step 2 of a schema-driven wizard the only remaining question can
\* be removed, which empties the list and leaves the wizard at step 2; the
\* empty list is no dead end: a question can be appended, an empty text or
\* ideal answer can be filled in, with values that pass the schema Next is
\* accepted, and at step 3 such values can be submitted.
C23_EmptyListNotDeadEnd ==
    (SchemaDriven /\ Mounted /\ Settled)
        => /\ (step = 2 /\ Len(form.questions) = 1)
                => ENABLED (remove(1) /\ step' = 2 /\ form'.questions = <<>>)
           /\ (step = 2 /\ Len(form.questions) = 0)
                => ENABLED (append /\ Len(form'.questions) = 1)
           /\ \A i \in 1..Len(form.questions), name \in {"text", "ideal_answer"} :
                (step = 2 /\ form.questions[i][name] = "")
                    => ENABLED QuestionsStepTextInput(i, name, "a")
           /\ (step = 2 /\ SchemaErrors(kind, form) = {})
                => ENABLED (handleNext /\ queue'[1].ok)
           /\ (step = 3 /\ SchemaErrors(kind, form) = {} /\ ~isLoading)
                => ENABLED (SubmitButton /\ queue'[1].ok)

\* The list of the wizard is empty at step 2.
C23_Witness ==
    SchemaDriven /\ Mounted /\ Settled /\ step = 2 /\ form.questions = <<>>


(***************************************************************************)
(* Claims about the completion of the placeholder upload.                  *)
(***************************************************************************)
\* The completion timer of the oldest submitted file fires in this step.
TimerFires == timers # <<>> /\ timers' = Tail(timers)

\* C24 (as claimed): on the PDF submission page the completion of the upload
\* of file A affects only A: another file selected after A was submitted
\* stays selected when A's timer fires, a rejection message produced
\* meanwhile stays displayed, and otherwise the timer shows the one success
\* message of A, the file that was submitted.
C24_CompletionAffectsOnlyItsFile ==
    [][ TimerFires
            => /\ selectedFile # Head(timers) => selectedFile' = selectedFile
               /\ message' = IF message = NotPdfMessage THEN message
                             ELSE UploadedMessage(Head(timers)) ]_vars


(***************************************************************************)
(* Claims about where a request is issued.                                 *)
(***************************************************************************)
\* C25 (as claimed): in the schema-driven wizards a create or update request
\* is issued only while the wizard is at step 3: a submit event of the form
\* arriving at step 1 or 2, such as an implicit submission from an input
\* field, results in no request.
C25_RequestOnlyAtReview ==
    [][ (SchemaDriven /\ RequestIssued) => step = 3 ]_vars


(***************************************************************************)
(* Claims about the cached single-item results.                            *)
(***************************************************************************)
\* C26 (as claimed): once a delete of exam X has succeeded, the cached result
\* of retrieve-by-id for X is no longer served: a detail or edit page of X
\* that is opened, or still mounted, afterwards does not display the exam.
C26_DeletedExamNotServed ==
    \A id \in DeletedOk :
        (route.name \in {"detail", "edit"} /\ ~Skip(route) /\ examId(route).n = id)
            => PageView # "data"


\* The cache keys of retrieve-by-id, and those a mutation's tags invalidate.
SingleItemKeys == {k \in CacheKeys : k.endpoint = "getExamById"}

\* The request of the entry was answered: the entry carries its tags.
Answered(k) == queries[k].tags # {}

HitBy(endpoint, arg) == InvalidatedBy(queries, InvalidatesTags(endpoint, arg))

\* A mutation's answer is handled by this step; the tags processed with it.
MutationAnswered == {r \in network \ network' : r.phase = "served" /\ r.endpoint \notin Queries}

TagsProcessed(r) == pendingTagInvalidations \cup InvalidatesTags(r.endpoint, r.arg)

\* C27 (as claimed): no mutation invalidates the cached single-item result of
\* an exam it does not target: an update or delete of exam X invalidates the
\* cached retrieve-by-id result of no other exam Y, a create invalidates the
\* cached retrieve-by-id result of no exam, and when a mutation's answer is
\* handled a valid single-item result changes only if a tag of its own exam
\* is processed.
C27_NoForeignInvalidation ==
    [][ \A k \in SingleItemKeys :
          Answered(k)
            => /\ \A X \in 1..FirstNewId, e \in {"updateExam", "deleteExam"} :
                     X # k.arg => k \notin HitBy(e, X)
               /\ k \notin HitBy("createExam", 0)
               /\ \A r \in MutationAnswered :
                     (queries[k].status = "fulfilled" /\ queries'[k] # queries[k])
                         => Tag(NumV(k.arg)) \in TagsProcessed(r) ]_vars

\* C27 (amended): an update or delete of exam X invalidates the cached
\* retrieve-by-id result of no other exam Y; a create, whose tag is the whole
\* type 'Exam', invalidates every cached retrieve-by-id result; and when a
\* mutation's answer is handled a valid single-item result changes only if a
\* tag of its own exam or the tag of a create is processed.
C27_OnlyTargetOrCreateInvalidates ==
    [][ \A k \in SingleItemKeys :
          Answered(k)
            => /\ \A X \in 1..FirstNewId, e \in {"updateExam", "deleteExam"} :
                     X # k.arg => k \notin HitBy(e, X)
               /\ k \in HitBy("createExam", 0)
               /\ \A r \in MutationAnswered :
                     (queries[k].status = "fulfilled" /\ queries'[k] # queries[k])
                         => (Tag(NumV(k.arg)) \in TagsProcessed(r)
                                \/ TypeTag \in TagsProcessed(r)) ]_vars

\* Exam 2 was deleted and the cached result of exam 1 is still valid.
C27_Witness == 2 \in DeletedOk /\ queries[ByIdKey(1)].status = "fulfilled"


(***************************************************************************)
(* ExamDashboard: the simulated upload.                                    *)
(***************************************************************************)
\* C28: after any sequence of upload starts and timer ticks, a second upload
\* started while an earlier interval still runs included, the upload
\* progress is a multiple of 10 between 0 and 100 inclusive.
C28_ProgressMultipleOfTen == uploadProgress \in {10 * n : n \in 0..10}

\* Two intervals run at once and the progress has reached its maximum.
C28_Witness == uploads = 2 /\ intervals = 2 /\ uploadProgress = 100

\* C29: provided the timer keeps firing, the interval of every started upload
\* is eventually cleared, processing eventually becomes false and stays false
\* until the next upload starts, and "Upload complete" is issued exactly once
\* per started upload.
C29_UploadTerminates ==
    /\ (intervals > 0) ~> (intervals = 0 /\ ~processing /\ toasts = uploads)
    /\ [](toasts <= uploads)
    /\ [][(~processing /\ processing') => uploads' = uploads + 1]_vars


(***************************************************************************)
(* Index: the links to /?view=create.                                      *)
(***************************************************************************)
\* The landing page was loaded and nothing was clicked on it yet.
JustLoaded == sessions = 0

\* C30: whenever the landing page is loaded with view=create, which is where
\* the "Create Exam" and "Create New Exam" links lead, its current view is
\* 'create': the wizard is open.
C30_ViewCreateOpensWizard ==
    (JustLoaded /\ search = "view=create") => view = "wizard"

====
